---------------------------- MODULE Spec2Model ----------------------------
(***************************************************************************)
(* SemanticFirewall (src/src/semantic_firewall.py): the fan-out of a       *)
(* message to the registered detectors, the isolation of their faults and  *)
(* the reduction of their results to one boolean verdict.                  *)
(*                                                                         *)
(* Python values are tagged records: a str is [str |-> <<characters>>], a  *)
(* number [num |-> n] (floats scaled by 100: 0.75 is 75), None             *)
(* [none |-> TRUE], a bool [bool |-> b] and a dict [dict |-> f] with f a    *)
(* function from keys to values.  The insertion-ordered result map of      *)
(* analyze_conversation is [keys |-> <<...>>, map |-> f].                  *)
(***************************************************************************)
EXTENDS Integers, Sequences, FiniteSets, TLC

VARIABLES
  detectors,    \* self.detectors: the class names of the registered detectors
  behaviour,    \* the detectors' analyze_text as functions of the input
  pc,           \* "idle" | "fanout" | "decide" | "done"
  op,           \* the public method being executed
  cur,          \* (current_message, conversation_history) of the call
  threshold,    \* threshold argument of is_manipulative
  i,            \* position of the fan-out loop in self.detectors
  all_results,  \* the local all_results / analysis_results
  j,            \* position of the decision loop in analysis_results.items()
  ret,          \* what the call gave to its caller
  trigger,      \* detector named by the "flagged as manipulative by" log line
  calls,        \* analyze_text invocations made by the call, in order
  evaluated,    \* entries the decision loop has looked at, in order
  snap,         \* an earlier completed call, kept by the caller
  ncalls        \* calls the caller has made

vars ==
  <<detectors, behaviour, pc, op, cur, threshold, i, all_results, j, ret,
    trigger, calls, evaluated, snap, ncalls>>

(***************************************************************************)
(* Character sequences of the string literals involved.                    *)
(***************************************************************************)
kw_concern ==
  <<"c","o","n","c","e","r","n">>
kw_manipulative ==
  <<"m","a","n","i","p","u","l","a","t","i","v","e">>
kw_echo_chamber ==
  <<"e","c","h","o","_","c","h","a","m","b","e","r">>
kw_benign ==
  <<"b","e","n","i","g","n">>
kw_injection ==
  <<"i","n","j","e","c","t","i","o","n">>
kw_potential ==
  <<"p","o","t","e","n","t","i","a","l">>
str_unknown ==
  <<"u","n","k","n","o","w","n">>
str_error_detector_failed ==
  <<"e","r","r","o","r","_","d","e","t","e","c","t","o","r","_","f","a","i","l","e","d">>
str_neutral_ml_placeholder ==
  <<"n","e","u","t","r","a","l","_","m","l","_","p","l","a","c","e","h","o","l","d","e","r">>
str_manipulative_pattern ==
  <<"m","a","n","i","p","u","l","a","t","i","v","e","_","p","a","t","t","e","r","n">>
str_Manipulative_Pattern ==
  <<"M","a","n","i","p","u","l","a","t","i","v","e","_","P","a","t","t","e","r","n">>
str_potential_concern ==
  <<"p","o","t","e","n","t","i","a","l","_","c","o","n","c","e","r","n">>
str_echo_chamber_detected ==
  <<"e","c","h","o","_","c","h","a","m","b","e","r","_","d","e","t","e","c","t","e","d">>
str_Echo_Chamber_Detected ==
  <<"E","c","h","o","_","C","h","a","m","b","e","r","_","D","e","t","e","c","t","e","d">>
str_benign_echo_chamber ==
  <<"b","e","n","i","g","n","_","e","c","h","o","_","c","h","a","m","b","e","r">>
str_injection_detected ==
  <<"i","n","j","e","c","t","i","o","n","_","d","e","t","e","c","t","e","d">>
str_Injection_Detected ==
  <<"I","n","j","e","c","t","i","o","n","_","D","e","t","e","c","t","e","d">>
str_benign_no_injection ==
  <<"b","e","n","i","g","n","_","n","o","_","i","n","j","e","c","t","i","o","n">>
str_high ==
  <<"h","i","g","h">>
str_timeout ==
  <<"t","i","m","e","o","u","t">>
msg_item_assignment ==
  <<"'","N","o","n","e","T","y","p","e","'"," ","o","b","j","e","c","t"," ","d","o","e","s"," ","n","o","t"," ","s","u","p","p","o","r","t"," ","i","t","e","m"," ","a","s","s","i","g","n","m","e","n","t">>
msg_no_lower ==
  <<"'","N","o","n","e","T","y","p","e","'"," ","o","b","j","e","c","t"," ","h","a","s"," ","n","o"," ","a","t","t","r","i","b","u","t","e"," ","'","l","o","w","e","r","'">>
msg_ge_unsupported ==
  <<"'",">","=","'"," ","n","o","t"," ","s","u","p","p","o","r","t","e","d"," ","b","e","t","w","e","e","n"," ","i","n","s","t","a","n","c","e","s"," ","o","f"," ","'","s","t","r","'"," ","a","n","d"," ","'","f","l","o","a","t","'">>

(***************************************************************************)
(* Python values and the str / dict operations the firewall uses.          *)
(***************************************************************************)
PyStr(s) == [str |-> s]
PyNum(n) == [num |-> n]
PyNone == [none |-> TRUE]
PyBool(b) == [bool |-> b]
PyDict(f) == [dict |-> f]

IsStr(v) == DOMAIN v = {"str"}
IsNum(v) == DOMAIN v = {"num"}
IsDict(v) == DOMAIN v = {"dict"}

UpperToLower ==
  [A |-> "a", B |-> "b", C |-> "c", D |-> "d", E |-> "e", F |-> "f",
   G |-> "g", H |-> "h", I |-> "i", J |-> "j", K |-> "k", L |-> "l",
   M |-> "m", N |-> "n", O |-> "o", P |-> "p", Q |-> "q", R |-> "r",
   S |-> "s", T |-> "t", U |-> "u", V |-> "v", W |-> "w", X |-> "x",
   Y |-> "y", Z |-> "z"]

\* str.lower()
Lower(s) ==
  [k \in 1..Len(s) |-> IF s[k] \in DOMAIN UpperToLower THEN UpperToLower[s[k]] ELSE s[k]]

\* sub in s
Contains(sub, s) ==
  \E k \in 0..(Len(s) - Len(sub)) : SubSeq(s, k + 1, k + Len(sub)) = sub

\* key in d
HasKey(d, key) == key \in DOMAIN d

\* d.get(key, default)
Get(d, key, default) == IF key \in DOMAIN d THEN d[key] ELSE default

\* {}
EmptyDict == [keys |-> <<>>, map |-> <<>>]

\* d[key] = value on an insertion-ordered dict
DictSet(d, key, value) ==
  [keys |-> IF key \in DOMAIN d.map THEN d.keys ELSE Append(d.keys, key),
   map |-> (key :> value) @@ d.map]

(***************************************************************************)
(* Construction: the four detectors, in registration order.                *)
(***************************************************************************)
RegisteredDetectors ==
  <<"RuleBasedDetector", "MLBasedDetector", "EchoChamberDetector", "InjectionDetector">>

\* threshold: float = 0.75
DefaultThreshold == 75

\* score_for_thresholding = 0.0 and the defaults of result.get(<score>, 0.0)
DefaultScore == 0

\* Variant of ErrorPlaceholder that fails closed: the entry of a faulting
\* detector carries a flagging classification.
ErrorPlaceholderFailClosed(e) ==
  PyDict(("error" :> PyStr(e.msg)) @@ ("classification" :> PyStr(kw_manipulative)))

\* the entry stored for a detector whose call raised e
ErrorPlaceholder(e) ==
  PyDict(("error" :> PyStr(e.msg)) @@ ("classification" :> PyStr(str_error_detector_failed)))

\* the sentinel written over MLBasedDetector's classification
NeutralSentinel == PyStr(str_neutral_ml_placeholder)

\* Variant of OverrideClassification that leaves the result as returned.
OverrideClassificationSkipped(result) == result

\* result["classification"] = "neutral_ml_placeholder"
OverrideClassification(result) ==
  PyDict(("classification" :> NeutralSentinel) @@ result.dict)

(***************************************************************************)
(* One iteration of the loop of analyze_conversation on the outcome of     *)
(* detector.analyze_text: [raise |-> e] or [value |-> v].  The result is   *)
(* the entry stored under the detector's name.                             *)
(***************************************************************************)
StoredEntry(detector_name, outcome) ==
  IF "raise" \in DOMAIN outcome
    THEN ErrorPlaceholder(outcome.raise)
    ELSE IF detector_name = "MLBasedDetector"
      THEN IF IsDict(outcome.value)
             THEN OverrideClassification(outcome.value)
             ELSE ErrorPlaceholder([type |-> "TypeError", msg |-> msg_item_assignment])
      ELSE outcome.value

(***************************************************************************)
(* The body of the loop of is_manipulative for one entry.                  *)
(***************************************************************************)
\* the keyword rule of each detector kind on the lower-cased classification
IsFlaggedByDetector(detector_name, detector_classification) ==
  CASE detector_name = "RuleBasedDetector" ->
         Contains(kw_concern, detector_classification)
           \/ Contains(kw_manipulative, detector_classification)
    [] detector_name = "MLBasedDetector" ->
         Contains(kw_manipulative, detector_classification)
           \/ Contains(kw_concern, detector_classification)
    [] detector_name = "EchoChamberDetector" ->
         Contains(kw_echo_chamber, detector_classification)
           /\ ~Contains(kw_benign, detector_classification)
    [] detector_name = "InjectionDetector" ->
         Contains(kw_injection, detector_classification)
           /\ ~Contains(kw_benign, detector_classification)
    [] OTHER ->
         Contains(kw_manipulative, detector_classification)
           \/ Contains(kw_concern, detector_classification)
           \/ (Contains(kw_potential, detector_classification)
                 /\ ~Contains(kw_benign, detector_classification))

\* Variant of ScoreForThresholding whose default for a missing field is 1.0.
ScoreForThresholdingDefaultOne(detector_name, result) ==
  CASE detector_name = "RuleBasedDetector" ->
         Get(result, "rule_based_probability", PyNum(100))
    [] detector_name = "MLBasedDetector" ->
         Get(result, "ml_model_confidence", PyNum(100))
    [] detector_name = "EchoChamberDetector" ->
         Get(result, "echo_chamber_probability", PyNum(100))
    [] detector_name = "InjectionDetector" ->
         Get(result, "score", PyNum(100))
    [] OTHER ->
         Get(result, "probability",
             Get(result, "confidence", Get(result, "score", PyNum(100))))

\* the score each detector kind is thresholded on
ScoreForThresholding(detector_name, result) ==
  CASE detector_name = "RuleBasedDetector" ->
         Get(result, "rule_based_probability", PyNum(DefaultScore))
    [] detector_name = "MLBasedDetector" ->
         Get(result, "ml_model_confidence", PyNum(DefaultScore))
    [] detector_name = "EchoChamberDetector" ->
         Get(result, "echo_chamber_probability", PyNum(DefaultScore))
    [] detector_name = "InjectionDetector" ->
         Get(result, "score", PyNum(DefaultScore))
    [] OTHER ->
         Get(result, "probability",
             Get(result, "confidence", Get(result, "score", PyNum(DefaultScore))))

\* Variant of MeetsThreshold with a strict comparison.
MeetsThresholdStrict(score, t) == score > t

\* Variant of MeetsThreshold with the comparison turned around.
MeetsThresholdInverted(score, t) == score <= t

\* score_for_thresholding >= threshold
MeetsThreshold(score, t) == score >= t

\* "continue": go to the next entry; "return_true": return True;
\* "raise": an exception leaves is_manipulative.
Evaluate(detector_name, result, t) ==
  IF ~IsDict(result) THEN [act |-> "continue"]
  ELSE IF HasKey(result.dict, "error")
          /\ Get(result.dict, "classification", PyNone) = PyStr(str_error_detector_failed)
    THEN [act |-> "continue"]
  ELSE LET classification == Get(result.dict, "classification", PyStr(str_unknown)) IN
    IF ~IsStr(classification)
      THEN [act |-> "raise", exc |-> [type |-> "AttributeError", msg |-> msg_no_lower]]
    ELSE LET detector_classification == Lower(classification.str)
             is_flagged_by_detector ==
               IsFlaggedByDetector(detector_name, detector_classification)
             score_for_thresholding == ScoreForThresholding(detector_name, result.dict)
         IN IF ~is_flagged_by_detector THEN [act |-> "continue"]
            ELSE IF ~IsNum(score_for_thresholding)
              THEN [act |-> "raise", exc |-> [type |-> "TypeError", msg |-> msg_ge_unsupported]]
            ELSE IF MeetsThreshold(score_for_thresholding.num, t)
              THEN [act |-> "return_true"]
              ELSE [act |-> "continue"]

(***************************************************************************)
(* What a detector may do when called.  The detectors are external: any    *)
(* of them may raise, return something that is not a dict, or return a     *)
(* dict with or without a usable classification and score.                 *)
(***************************************************************************)
Absent == [absent |-> TRUE]

Raises(m) == [raise |-> [type |-> "RuntimeError", msg |-> m]]

Returns(v) == [value |-> v]

MkResult(classification, score_field, score) ==
  Returns(PyDict((IF classification = Absent THEN <<>> ELSE "classification" :> classification)
                 @@ (IF score = Absent THEN <<>> ELSE score_field :> score)))

SelfReportedError(score_field) ==
  Returns(PyDict(("error" :> PyStr(str_timeout))
                 @@ ("classification" :> PyStr(str_error_detector_failed))
                 @@ (score_field :> PyNum(90))))

Outcomes(detector_name) ==
  CASE detector_name = "RuleBasedDetector" ->
         { Raises(str_timeout),
           Returns(PyNone),
           MkResult(PyStr(str_Manipulative_Pattern), "rule_based_probability", PyNum(90)),
           MkResult(PyStr(str_manipulative_pattern), "rule_based_probability", PyNum(50)),
           MkResult(PyStr(str_potential_concern), "rule_based_probability", Absent),
           MkResult(PyStr(kw_benign), "rule_based_probability", PyNum(90)),
           MkResult(PyNone, "rule_based_probability", PyNum(90)),
           MkResult(PyStr(str_manipulative_pattern), "rule_based_probability", PyStr(str_high)),
           MkResult(Absent, "rule_based_probability", PyNum(90)),
           SelfReportedError("rule_based_probability") }
    [] detector_name = "MLBasedDetector" ->
         { Raises(str_timeout),
           Returns(PyNone),
           MkResult(PyStr(kw_manipulative), "ml_model_confidence", PyNum(90)),
           MkResult(PyStr(kw_manipulative), "ml_model_confidence", Absent),
           MkResult(PyNone, "ml_model_confidence", PyStr(str_high)) }
    [] detector_name = "EchoChamberDetector" ->
         { Raises(str_timeout),
           Returns(PyNone),
           MkResult(PyStr(str_echo_chamber_detected), "echo_chamber_probability", PyNum(90)),
           MkResult(PyStr(str_Echo_Chamber_Detected), "echo_chamber_probability", PyNum(50)),
           MkResult(PyStr(str_echo_chamber_detected), "echo_chamber_probability", Absent),
           MkResult(PyStr(str_benign_echo_chamber), "echo_chamber_probability", PyNum(90)),
           MkResult(PyNone, "echo_chamber_probability", PyNum(90)),
           MkResult(PyStr(str_echo_chamber_detected), "echo_chamber_probability", PyStr(str_high)),
           MkResult(Absent, "echo_chamber_probability", PyNum(90)) }
    [] detector_name = "InjectionDetector" ->
         { Raises(str_timeout),
           Returns(PyNone),
           MkResult(PyStr(str_Injection_Detected), "score", PyNum(90)),
           MkResult(PyStr(str_injection_detected), "score", PyNum(50)),
           MkResult(PyStr(str_injection_detected), "score", Absent),
           MkResult(PyStr(str_benign_no_injection), "score", PyNum(90)),
           MkResult(PyNone, "score", PyNum(90)),
           MkResult(PyStr(str_injection_detected), "score", PyStr(str_high)),
           MkResult(PyStr(str_error_detector_failed), "score", PyNum(90)) }

\* thresholds a caller passes: 0.0, the default 0.75, and 0.9
Thresholds == {0, DefaultThreshold, 90}

\* (current_message, conversation_history) pairs a caller passes
Inputs ==
  { [current_message |-> "You always twist my words, just admit it",
     conversation_history |-> PyNone],
    [current_message |-> "hello", conversation_history |-> [list |-> <<"hi">>]] }

(***************************************************************************)
(* The state machine.                                                      *)
(***************************************************************************)
\* calls a caller makes in one behaviour
MaxCalls == 3

NoReturn == [pending |-> TRUE]
NoTrigger == "none"
NoSnap == [none |-> TRUE]
NoBehaviour == <<>>

NoInput == [none |-> TRUE]

Idle ==
  /\ pc = "idle"
  /\ op = "none"
  /\ cur = NoInput
  /\ threshold = DefaultThreshold
  /\ i = 0
  /\ all_results = EmptyDict
  /\ j = 0
  /\ ret = NoReturn
  /\ trigger = NoTrigger
  /\ calls = <<>>
  /\ evaluated = <<>>

Init ==
  /\ detectors = RegisteredDetectors
  /\ behaviour = NoBehaviour
  /\ snap = NoSnap
  /\ ncalls = 0
  /\ Idle

\* a caller enters analyze_conversation(x.current_message, x.conversation_history)
CallAnalyzeConversation(x) ==
  /\ pc = "idle"
  /\ ncalls < MaxCalls
  /\ ncalls' = ncalls + 1
  /\ pc' = "fanout"
  /\ op' = "analyze_conversation"
  /\ cur' = x
  /\ all_results' = EmptyDict
  /\ i' = 1
  /\ UNCHANGED <<detectors, behaviour, threshold, j, ret, trigger, calls, evaluated, snap>>

\* a caller enters is_manipulative(x.current_message, x.conversation_history, t),
\* which starts with analyze_conversation
CallIsManipulative(x, t) ==
  /\ pc = "idle"
  /\ ncalls < MaxCalls
  /\ ncalls' = ncalls + 1
  /\ pc' = "fanout"
  /\ op' = "is_manipulative"
  /\ cur' = x
  /\ threshold' = t
  /\ all_results' = EmptyDict
  /\ i' = 1
  /\ UNCHANGED <<detectors, behaviour, j, ret, trigger, calls, evaluated, snap>>

\* Variant of FanOutStep without the try/except: a detector's exception ends
\* the call.
FanOutStepAbort(outcome) ==
  /\ pc = "fanout"
  /\ i <= Len(detectors)
  /\ calls' = Append(calls, [detector |-> detectors[i], outcome |-> outcome])
  /\ IF "raise" \in DOMAIN outcome
       THEN /\ ret' = [raised |-> outcome.raise]
            /\ pc' = "done"
            /\ UNCHANGED <<all_results, i>>
       ELSE /\ all_results' =
                 DictSet(all_results, detectors[i], StoredEntry(detectors[i], outcome))
            /\ i' = i + 1
            /\ UNCHANGED <<ret, pc>>
  /\ UNCHANGED <<detectors, behaviour, op, cur, threshold, j, trigger, evaluated, snap, ncalls>>

\* Variant of FanOutStep that unregisters a detector that raised.
FanOutStepDisabling(outcome) ==
  /\ pc = "fanout"
  /\ i <= Len(detectors)
  /\ all_results' = DictSet(all_results, detectors[i], StoredEntry(detectors[i], outcome))
  /\ calls' = Append(calls, [detector |-> detectors[i], outcome |-> outcome])
  /\ detectors' = IF "raise" \in DOMAIN outcome
                    THEN SubSeq(detectors, 1, i - 1) \o SubSeq(detectors, i + 1, Len(detectors))
                    ELSE detectors
  /\ i' = i + 1
  /\ UNCHANGED <<behaviour, pc, op, cur, threshold, j, ret, trigger, evaluated, snap, ncalls>>

\* Variant of FanOutStep that calls a detector that raised a second time.
FanOutStepRetry(outcome) ==
  /\ pc = "fanout"
  /\ i <= Len(detectors)
  /\ calls' = Append(calls, [detector |-> detectors[i], outcome |-> outcome])
  /\ IF "raise" \in DOMAIN outcome
        /\ (calls = <<>> \/ calls[Len(calls)].detector # detectors[i])
       THEN UNCHANGED <<all_results, i>>
       ELSE /\ all_results' =
                 DictSet(all_results, detectors[i], StoredEntry(detectors[i], outcome))
            /\ i' = i + 1
  /\ UNCHANGED <<detectors, behaviour, pc, op, cur, threshold, j, ret, trigger, evaluated, snap, ncalls>>

\* one iteration of "for detector in self.detectors", the detector doing outcome
FanOutStep(outcome) ==
  /\ pc = "fanout"
  /\ i <= Len(detectors)
  /\ all_results' = DictSet(all_results, detectors[i], StoredEntry(detectors[i], outcome))
  /\ calls' = Append(calls, [detector |-> detectors[i], outcome |-> outcome])
  /\ i' = i + 1
  /\ UNCHANGED <<detectors, behaviour, pc, op, cur, threshold, j, ret, trigger, evaluated, snap, ncalls>>

\* return all_results, to the caller of analyze_conversation
ReturnResults ==
  /\ pc = "fanout"
  /\ i > Len(detectors)
  /\ op = "analyze_conversation"
  /\ ret' = [returned |-> all_results]
  /\ pc' = "done"
  /\ UNCHANGED <<detectors, behaviour, op, cur, threshold, i, all_results, j, trigger, calls, evaluated, snap, ncalls>>

\* return all_results, to is_manipulative, which starts its loop
BeginDecision ==
  /\ pc = "fanout"
  /\ i > Len(detectors)
  /\ op = "is_manipulative"
  /\ j' = 1
  /\ pc' = "decide"
  /\ UNCHANGED <<detectors, behaviour, op, cur, threshold, i, all_results, ret, trigger, calls, evaluated, snap, ncalls>>

\* Variant of DecideStep that walks the entries from the last to the first.
DecideStepReversed ==
  /\ pc = "decide"
  /\ j <= Len(all_results.keys)
  /\ LET detector_name == all_results.keys[Len(all_results.keys) + 1 - j]
         e == Evaluate(detector_name, all_results.map[detector_name], threshold)
     IN /\ evaluated' = Append(evaluated, detector_name)
        /\ CASE e.act = "continue" ->
                  /\ j' = j + 1
                  /\ UNCHANGED <<pc, ret, trigger>>
             [] e.act = "return_true" ->
                  /\ trigger' = detector_name
                  /\ ret' = [returned |-> PyBool(TRUE)]
                  /\ pc' = "done"
                  /\ UNCHANGED j
             [] e.act = "raise" ->
                  /\ ret' = [raised |-> e.exc]
                  /\ pc' = "done"
                  /\ UNCHANGED <<j, trigger>>
  /\ UNCHANGED <<detectors, behaviour, op, cur, threshold, i, all_results, calls, snap, ncalls>>

\* one iteration of "for detector_name, result in analysis_results.items()"
DecideStep ==
  /\ pc = "decide"
  /\ j <= Len(all_results.keys)
  /\ LET detector_name == all_results.keys[j]
         e == Evaluate(detector_name, all_results.map[detector_name], threshold)
     IN /\ evaluated' = Append(evaluated, detector_name)
        /\ CASE e.act = "continue" ->
                  /\ j' = j + 1
                  /\ UNCHANGED <<pc, ret, trigger>>
             [] e.act = "return_true" ->
                  /\ trigger' = detector_name
                  /\ ret' = [returned |-> PyBool(TRUE)]
                  /\ pc' = "done"
                  /\ UNCHANGED j
             [] e.act = "raise" ->
                  /\ ret' = [raised |-> e.exc]
                  /\ pc' = "done"
                  /\ UNCHANGED <<j, trigger>>
  /\ UNCHANGED <<detectors, behaviour, op, cur, threshold, i, all_results, calls, snap, ncalls>>

\* return False, after the loop
ReturnFalse ==
  /\ pc = "decide"
  /\ j > Len(all_results.keys)
  /\ ret' = [returned |-> PyBool(FALSE)]
  /\ pc' = "done"
  /\ UNCHANGED <<detectors, behaviour, op, cur, threshold, i, all_results, j, trigger, calls, evaluated, snap, ncalls>>

\* the caller has the outcome; the call's locals are gone
Resume(keep) ==
  /\ pc = "done"
  /\ snap' = IF keep
               THEN [op |-> op, cur |-> cur, threshold |-> threshold,
                     all_results |-> all_results, ret |-> ret, fault_since |-> FALSE]
               ELSE IF snap = NoSnap
                 THEN NoSnap
                 ELSE [snap EXCEPT !.fault_since =
                         @ \/ \E k \in 1..Len(calls) : "raise" \in DOMAIN calls[k].outcome]
  /\ pc' = "idle"
  /\ op' = "none"
  /\ cur' = NoInput
  /\ threshold' = DefaultThreshold
  /\ i' = 0
  /\ all_results' = EmptyDict
  /\ j' = 0
  /\ ret' = NoReturn
  /\ trigger' = NoTrigger
  /\ calls' = <<>>
  /\ evaluated' = <<>>
  /\ UNCHANGED <<detectors, behaviour, ncalls>>

\* detector.analyze_text(...) of an arbitrary detector
Invoke ==
  /\ pc = "fanout"
  /\ i <= Len(detectors)
  /\ \E outcome \in Outcomes(detectors[i]) : FanOutStep(outcome)

Next ==
  \/ \E x \in Inputs : CallAnalyzeConversation(x)
  \/ \E x \in Inputs, t \in Thresholds : CallIsManipulative(x, t)
  \/ Invoke
  \/ ReturnResults
  \/ BeginDecision
  \/ DecideStep
  \/ ReturnFalse
  \/ Resume(FALSE)

Spec == Init /\ [][Next]_vars

(***************************************************************************)
(* The same firewall in front of stateless deterministic detectors: what   *)
(* a detector does is a function of (current_message,                      *)
(* conversation_history), fixed for the whole behaviour.  The caller may   *)
(* keep the outcome of a call to compare later calls with it.              *)
(***************************************************************************)
DetOutcomes(detector_name) ==
  CASE detector_name = "RuleBasedDetector" ->
         { Raises(str_timeout),
           MkResult(PyStr(str_Manipulative_Pattern), "rule_based_probability", PyNum(90)),
           MkResult(PyStr(str_manipulative_pattern), "rule_based_probability", PyNum(50)) }
    [] detector_name = "MLBasedDetector" ->
         { Raises(str_timeout),
           MkResult(PyStr(kw_manipulative), "ml_model_confidence", PyNum(90)) }
    [] detector_name = "EchoChamberDetector" ->
         { MkResult(PyStr(str_Echo_Chamber_Detected), "echo_chamber_probability", PyNum(50)),
           MkResult(PyStr(str_echo_chamber_detected), "echo_chamber_probability", PyStr(str_high)) }
    [] detector_name = "InjectionDetector" ->
         { MkResult(PyStr(str_injection_detected), "score", PyNum(50)),
           MkResult(PyStr(str_benign_no_injection), "score", PyNum(90)) }

InitDet ==
  /\ detectors = RegisteredDetectors
  /\ \E r \in [Inputs -> DetOutcomes("RuleBasedDetector")],
        m \in [Inputs -> DetOutcomes("MLBasedDetector")],
        e \in [Inputs -> DetOutcomes("EchoChamberDetector")],
        n \in [Inputs -> DetOutcomes("InjectionDetector")] :
        behaviour = [RuleBasedDetector |-> r, MLBasedDetector |-> m,
                     EchoChamberDetector |-> e, InjectionDetector |-> n]
  /\ snap = NoSnap
  /\ ncalls = 0
  /\ Idle

\* detector.analyze_text(...) of a deterministic detector
InvokeDet ==
  /\ pc = "fanout"
  /\ i <= Len(detectors)
  /\ FanOutStep(behaviour[detectors[i]][cur])

NextDet ==
  \/ \E x \in Inputs : CallAnalyzeConversation(x)
  \/ \E x \in Inputs, t \in Thresholds : CallIsManipulative(x, t)
  \/ InvokeDet
  \/ ReturnResults
  \/ BeginDecision
  \/ DecideStep
  \/ ReturnFalse
  \/ \E keep \in BOOLEAN : Resume(keep)

SpecDet == InitDet /\ [][NextDet]_vars


(***************************************************************************)
(* Vocabulary of the properties.  These restate the decision rule          *)
(* declaratively, on what the detectors gave back, independently of the    *)
(* loop above.                                                             *)
(***************************************************************************)
Range(s) == {s[k] : k \in 1..Len(s)}

Faulted(k) == "raise" \in DOMAIN calls[k].outcome

ReturnedTrue == ret = [returned |-> PyBool(TRUE)]

ReturnedFalse == ret = [returned |-> PyBool(FALSE)]

FinishedIsManipulative == pc = "done" /\ op = "is_manipulative"

ClaimedScoreField(detector_name) ==
  CASE detector_name = "RuleBasedDetector" -> "rule_based_probability"
    [] detector_name = "MLBasedDetector" -> "ml_model_confidence"
    [] detector_name = "EchoChamberDetector" -> "echo_chamber_probability"
    [] detector_name = "InjectionDetector" -> "score"

ClaimedFlagged(detector_name, lowered) ==
  CASE detector_name = "RuleBasedDetector" ->
         Contains(kw_concern, lowered) \/ Contains(kw_manipulative, lowered)
    [] detector_name = "MLBasedDetector" -> FALSE
    [] detector_name = "EchoChamberDetector" ->
         Contains(kw_echo_chamber, lowered) /\ ~Contains(kw_benign, lowered)
    [] detector_name = "InjectionDetector" ->
         Contains(kw_injection, lowered) /\ ~Contains(kw_benign, lowered)

\* the detector returned a dict whose classification, if present, is text and
\* whose authoritative score, if present, is a number
WellFormed(detector_name, outcome) ==
  \/ "raise" \in DOMAIN outcome
  \/ /\ IsDict(outcome.value)
     /\ IsStr(Get(outcome.value.dict, "classification", PyStr(str_unknown)))
     /\ IsNum(Get(outcome.value.dict, ClaimedScoreField(detector_name), PyNum(0)))

\* the detector did not fault, its classification is flagged by its kind's
\* keyword rule and its authoritative score (0.0 when missing) is >= t
Qualifies(detector_name, outcome, t) ==
  /\ "value" \in DOMAIN outcome
  /\ IsDict(outcome.value)
  /\ LET c == Get(outcome.value.dict, "classification", PyStr(str_unknown))
         s == Get(outcome.value.dict, ClaimedScoreField(detector_name), PyNum(0))
     IN /\ IsStr(c)
        /\ ClaimedFlagged(detector_name, Lower(c.str))
        /\ IsNum(s)
        /\ s.num >= t

LacksScore(detector_name, outcome) ==
  /\ "value" \in DOMAIN outcome
  /\ IsDict(outcome.value)
  /\ ~HasKey(outcome.value.dict, ClaimedScoreField(detector_name))

(***************************************************************************)
(* C1: once the fan-out is over, the result map has exactly one entry per  *)
(* registered detector, keyed by the detector's name, whatever each        *)
(* detector did (all of them raising included); the entry of a detector    *)
(* that raised is {error: <message>, classification:                       *)
(* "error_detector_failed"}; and analyze_conversation returns that map.    *)
(***************************************************************************)
C1_OneEntryPerDetector ==
  pc \in {"decide", "done"} =>
    /\ Len(all_results.keys) = Len(detectors)
    /\ Range(all_results.keys) = Range(detectors)
    /\ DOMAIN all_results.map = Range(detectors)
    /\ \A k \in 1..Len(calls) :
         Faulted(k) =>
           all_results.map[calls[k].detector] =
             PyDict([error |-> PyStr(calls[k].outcome.raise.msg),
                     classification |-> PyStr(str_error_detector_failed)])
    /\ (pc = "done" /\ op = "analyze_conversation") => ret = [returned |-> all_results]

C1_Witness_AllRaise ==
  /\ pc = "done"
  /\ op = "analyze_conversation"
  /\ Len(calls) = Len(RegisteredDetectors)
  /\ \A k \in 1..Len(calls) : Faulted(k)
  /\ ret = [returned |-> all_results]

(***************************************************************************)
(* C2: no call ever ends with an exception reaching the caller, and        *)
(* is_manipulative always gives a boolean.                                 *)
(***************************************************************************)
C2_NeverRaises ==
  pc = "done" =>
    /\ "returned" \in DOMAIN ret
    /\ op = "is_manipulative" => (ReturnedTrue \/ ReturnedFalse)

(***************************************************************************)
(* C3: on well-formed detector outputs is_manipulative returns true        *)
(* exactly when at least one detector qualifies (any-one-qualifies), and   *)
(* false otherwise.                                                        *)
(***************************************************************************)
C3_TrueIffSomeDetectorQualifies ==
  (FinishedIsManipulative
     /\ \A k \in 1..Len(calls) : WellFormed(calls[k].detector, calls[k].outcome))
  => ret = [returned |->
              PyBool(\E k \in 1..Len(calls) :
                       Qualifies(calls[k].detector, calls[k].outcome, threshold))]

\* rule-based "manipulative_pattern"-like label at 0.9, threshold 0.75, the
\* other detectors not flagging
C3_Witness_RuleBasedAlone ==
  /\ FinishedIsManipulative
  /\ threshold = DefaultThreshold
  /\ \A k \in 1..Len(calls) : WellFormed(calls[k].detector, calls[k].outcome)
  /\ Qualifies("RuleBasedDetector", calls[1].outcome, threshold)
  /\ \A k \in 2..Len(calls) : ~Qualifies(calls[k].detector, calls[k].outcome, 0)
  /\ ReturnedTrue

(***************************************************************************)
(* C4: whatever MLBasedDetector returns, its stored classification is the  *)
(* neutral sentinel and it is never the detector that makes the verdict    *)
(* true.                                                                   *)
(***************************************************************************)
C4_PlaceholderNeverFlags ==
  /\ trigger # "MLBasedDetector"
  /\ \A k \in 1..Len(calls) :
       (calls[k].detector = "MLBasedDetector" /\ ~Faulted(k) /\ IsDict(calls[k].outcome.value))
       => all_results.map["MLBasedDetector"].dict["classification"]
            = PyStr(str_neutral_ml_placeholder)

\* the stub returned "manipulative" with confidence 0.9, nothing else
\* qualified, and the verdict is false at a threshold the confidence meets
C4_Witness_ManipulativeStub ==
  /\ FinishedIsManipulative
  /\ threshold <= 90
  /\ calls[2].detector = "MLBasedDetector"
  /\ calls[2].outcome = MkResult(PyStr(kw_manipulative), "ml_model_confidence", PyNum(90))
  /\ ReturnedFalse

(***************************************************************************)
(* C5: a detector that faulted stays in the result map with                *)
(* classification "error_detector_failed" and never decides: it is never   *)
(* the trigger, a verdict equals the one of the detectors that did not     *)
(* fault, and when all detectors fault the verdict is false.               *)
(***************************************************************************)
C5_FaultedDetectorsExcluded ==
  /\ \A k \in 1..Len(calls) :
       Faulted(k) =>
         /\ calls[k].detector \in DOMAIN all_results.map
         /\ all_results.map[calls[k].detector].dict["classification"]
              = PyStr(str_error_detector_failed)
         /\ trigger # calls[k].detector
  /\ (trigger # NoTrigger) =>
       all_results.map[trigger].dict["classification"] # PyStr(str_error_detector_failed)
  /\ (FinishedIsManipulative /\ "returned" \in DOMAIN ret) =>
       ret = [returned |->
                PyBool(\E k \in 1..Len(calls) :
                         ~Faulted(k) /\ Qualifies(calls[k].detector, calls[k].outcome, threshold))]
  /\ (FinishedIsManipulative /\ \A k \in 1..Len(calls) : Faulted(k)) => ReturnedFalse

C5_Witness_AllFaultFailOpen ==
  /\ FinishedIsManipulative
  /\ Len(calls) = Len(RegisteredDetectors)
  /\ \A k \in 1..Len(calls) : Faulted(k)
  /\ threshold = 0
  /\ ReturnedFalse

(***************************************************************************)
(* C6 as stated: a detector whose result lacks its authoritative score     *)
(* field never makes the verdict true, at any threshold.                   *)
(***************************************************************************)
C6_MissingScoreNeverTriggers ==
  \A k \in 1..Len(calls) :
    LacksScore(calls[k].detector, calls[k].outcome) => trigger # calls[k].detector

(***************************************************************************)
(* C6 amended: a detector whose result lacks its authoritative score       *)
(* field never makes the verdict true at a threshold above 0.0.            *)
(***************************************************************************)
C6_MissingScoreNeverTriggersAbove0 ==
  threshold > 0 =>
    \A k \in 1..Len(calls) :
      LacksScore(calls[k].detector, calls[k].outcome) => trigger # calls[k].detector

\* a flagged classification without score was passed over at a positive
\* threshold
C6_Witness_FlaggedWithoutScore ==
  /\ FinishedIsManipulative
  /\ threshold > 0
  /\ calls[1].outcome = MkResult(PyStr(str_potential_concern), "rule_based_probability", Absent)
  /\ "RuleBasedDetector" \in Range(evaluated)
  /\ ReturnedFalse

(***************************************************************************)
(* C7: a true verdict names a triggering detector, the first in            *)
(* registration order among the qualifying ones, and the decision loop     *)
(* has looked at the entries up to that one and at none after it.          *)
(***************************************************************************)
C7_FirstQualifyingTriggers ==
  /\ (trigger # NoTrigger) <=> ReturnedTrue
  /\ ReturnedTrue =>
       \E k \in 1..Len(RegisteredDetectors) :
         /\ trigger = RegisteredDetectors[k]
         /\ Qualifies(calls[k].detector, calls[k].outcome, threshold)
         /\ \A m \in 1..(k - 1) : ~Qualifies(calls[m].detector, calls[m].outcome, threshold)
         /\ evaluated = SubSeq(RegisteredDetectors, 1, k)

\* two detectors qualify; the earlier one is the trigger
C7_Witness_TwoQualify ==
  /\ ReturnedTrue
  /\ trigger = "EchoChamberDetector"
  /\ Qualifies("EchoChamberDetector", calls[3].outcome, threshold)
  /\ Qualifies("InjectionDetector", calls[4].outcome, threshold)
  /\ evaluated = SubSeq(RegisteredDetectors, 1, 3)

(***************************************************************************)
(* C8: the registered detector list never changes, and with stateless      *)
(* deterministic detectors a call with the same message and history as an  *)
(* earlier call gives the same result map and, at the same threshold, the  *)
(* same verdict, whatever calls were made in between.                      *)
(***************************************************************************)
C8_NoPerCallState ==
  /\ detectors = RegisteredDetectors
  /\ (pc = "done" /\ snap # NoSnap) =>
       (snap.cur = cur =>
          /\ snap.all_results = all_results
          /\ (snap.op = op /\ snap.threshold = threshold) => snap.ret = ret)

\* the same input again, after a call in which a detector faulted
C8_Witness_RepeatAfterFault ==
  /\ pc = "done"
  /\ snap # NoSnap
  /\ snap.cur = cur
  /\ snap.fault_since
  /\ snap.op = "is_manipulative"
  /\ op = "is_manipulative"
  /\ snap.threshold = threshold
  /\ snap.ret = ret
  /\ ncalls >= 3

(***************************************************************************)
(* C9: in a call every registered detector is invoked exactly once, in     *)
(* registration order, one after the other; a detector that faults is      *)
(* recorded as failed and not invoked again; and is_manipulative evaluates *)
(* no result before all detectors have been invoked.                       *)
(***************************************************************************)
C9_SequentialFanOutOnce ==
  /\ Len(calls) <= Len(detectors)
  /\ \A k \in 1..Len(calls) : calls[k].detector = detectors[k]
  /\ pc = "fanout" => Len(calls) = i - 1
  /\ pc \in {"decide", "done"} => Len(calls) = Len(detectors)
  /\ Len(evaluated) > 0 => Len(calls) = Len(detectors)
  /\ \A k \in 1..Len(calls) :
       Faulted(k) =>
         all_results.map[calls[k].detector].dict["classification"]
           = PyStr(str_error_detector_failed)

C9_Witness_EvaluatingAfterFault ==
  /\ pc = "decide"
  /\ Len(evaluated) >= 1
  /\ Len(calls) = Len(RegisteredDetectors)
  /\ \E k \in 1..Len(calls) : Faulted(k)

(***************************************************************************)
(* C10: for the same detector outputs, a verdict true at threshold t is    *)
(* true at every lower threshold and a verdict false at t is false at      *)
(* every higher threshold.                                                 *)
(***************************************************************************)
C10_MonotoneInThreshold ==
  (FinishedIsManipulative /\ snap # NoSnap) =>
    ((snap.op = "is_manipulative" /\ snap.cur = cur) =>
       /\ (snap.ret = [returned |-> PyBool(TRUE)] /\ threshold <= snap.threshold) => ReturnedTrue
       /\ (snap.ret = [returned |-> PyBool(FALSE)] /\ threshold >= snap.threshold) => ReturnedFalse
       /\ (ReturnedTrue /\ snap.threshold <= threshold) => snap.ret = [returned |-> PyBool(TRUE)]
       /\ (ReturnedFalse /\ snap.threshold >= threshold) => snap.ret = [returned |-> PyBool(FALSE)])

\* true at 0.75 and at 0.0, false at 0.9 or the like: both verdicts occur
C10_Witness_VerdictFlips ==
  /\ FinishedIsManipulative
  /\ snap # NoSnap
  /\ snap.op = "is_manipulative"
  /\ snap.cur = cur
  /\ snap.ret = [returned |-> PyBool(FALSE)]
  /\ threshold < snap.threshold
  /\ ReturnedTrue

============================================================================
